---- MODULE Spec2Model ----
(***************************************************************************)
(* A model of pychan's MERGE INTO statement builder                        *)
(* (src/pychan/sql/merge.py, class MergeIntoWriter), of the branch scope   *)
(* classes nested in it and of the clause generators                       *)
(* (src/pychan/sql/utils.py, class MergeUtils).                            *)
(*                                                                         *)
(* Python strings are TLA+ strings and f-strings are concatenation (\o).   *)
(* An Optional[String] is None (the empty tuple) or Some(s) (a 1-tuple).   *)
(***************************************************************************)
EXTENDS Integers, Sequences, FiniteSets, TLC

VARIABLES
    writer,    \* the MergeIntoWriter object: a record of its attributes
    scopes,    \* the branch scope object each variable of the caller holds
    ret,       \* what the last call returned or raised
    calls,     \* the action calls made on the writer, by class of scope, since it
               \* was constructed or since its last generate() that returned
    util,      \* the last call of a MergeUtils method: its name, its arguments
               \* and the string it returned
    used,      \* whether the scope object a variable holds has appended a line
    builders,  \* the writers Dataset.mergeInto returned, as objects: each
               \* writer's list attributes refer to list objects of the heap
    render,    \* a generate() call in progress on the writer while another
               \* thread uses the writer too: where it stands and its local sql
    acting,    \* an action call in progress in that other thread: Some(the
               \* variable of the scope) from its append() to its return
    reuse      \* Some(the first three lines of the last statement generate()
               \* returned, and whether the writer had been reused that way
               \* before), kept while the caller has since only called
               \* generate(), created scopes and recorded at most one action;
               \* None otherwise

vars == <<writer, scopes, ret, calls, used, reuse, util, builders, render, acting>>

\* the variables of the writer and of its caller
writerVars == <<writer, scopes, ret, calls, used, reuse>>

-----------------------------------------------------------------------------
(* Bounds of the model and the inputs the caller draws from.               *)

\* the caller records at most this many action lines between two renders
MaxActions == 2

\* the column lists given to the clause generators hold at most this many names
MaxCols == 2

None == <<>>

Some(s) == <<s>>

TableNames == {"", "lh.Sales"}

ViewNames == {"", "{df}"}

JoinConditions == {"", "target.id = source.id"}

\* the extra predicate of a branch: absent, empty or given
BranchConditions == {None, Some(""), Some("col > 0")}

\* the same without the empty predicate
GuardConditions == {None, Some("col > 0")}

SetClauses == {"a = source.a"}

ValuesClauses == {"(a) VALUES (source.a)"}

ColumnNames == {"a", "b"}

\* the value lists of partition columns, as the caller formats them
PartitionValues == {"'S030'", "'2025', '2024'"}

\* the names a caller asks genSet to ignore
IgnoredNames == {"a", "b", "z"}

\* the lists of at most n elements of S
Lists(S, n) == UNION {[1..k -> S] : k \in 0..n}

\* the caller's variables that can hold a branch scope: the caller keeps one
\* scope at a time
ScopeVars == {"s1"}

-----------------------------------------------------------------------------
(* Python's truth values, all(), any() and str.join().                     *)

TruthyStr(s) == s # ""

Truthy(o) == o # None /\ TruthyStr(o[1])

all(bs) == \A i \in 1..Len(bs) : bs[i]

any(bs) == \E i \in 1..Len(bs) : bs[i]

RECURSIVE join(_, _)
join(sep, list) ==
    IF list = <<>> THEN ""
    ELSE IF Len(list) = 1 THEN list[1]
    ELSE list[1] \o sep \o join(sep, Tail(list))

\* __name__ in merge.py
ModuleName == "pychan.sql.merge"

\* The outcome of a call. kind is what the call returned ("writer", "scope",
\* "str") or the exception it raised ("ValueError"); text is the returned
\* string or the exception's message; sql is the list generate() composed;
\* obj names the writer returned, or the variable the returned scope is bound to.
Outcome(kind, text, sql, obj) ==
    [kind |-> kind, text |-> text, sql |-> sql, obj |-> obj]

ReturnsWriter(w) == Outcome("writer", "", <<>>, w.self)

-----------------------------------------------------------------------------
(* class MergeIntoWriter                                                   *)

MergeIntoWriter(self, tbl) ==
    [self |-> self,
     targetAs |-> "target",
     sourceAs |-> "source",
     tblName |-> tbl,
     viewName |-> None,
     condition |-> None,
     matchedActions |-> <<>>,
     notMatchedActions |-> <<>>,
     notMatchedBySourceActions |-> <<>>]

\* using() as if it started a new statement
using_resets(w, v) ==
    [w EXCEPT !.viewName = Some(v),
              !.matchedActions = <<>>,
              !.notMatchedActions = <<>>,
              !.notMatchedBySourceActions = <<>>]

using(w, v) == [w EXCEPT !.viewName = Some(v)]

\* on() that keeps a join condition already set
on_keepsFirst(w, c) ==
    IF w.condition = None THEN [w EXCEPT !.condition = Some(c)] ELSE w

on(w, c) == [w EXCEPT !.condition = Some(c)]

\* _clearActions() that forgets the last list
clearActions_keepsBySource(w) ==
    [w EXCEPT !.matchedActions = <<>>,
              !.notMatchedActions = <<>>]

clearActions(w) ==
    [w EXCEPT !.matchedActions = <<>>,
              !.notMatchedActions = <<>>,
              !.notMatchedBySourceActions = <<>>]

\* the check of lines 65-70 as "is not None"
hasParameters_notNone(w) ==
    all(<<TRUE, w.viewName # None, w.condition # None>>)

\* generate(), lines 65-70: the required parameters are all truthy
hasParameters(w) ==
    all(<<TruthyStr(w.tblName), Truthy(w.viewName), Truthy(w.condition)>>)

\* the check of lines 72-77 looking at the first list only
hasActions_matchedOnly(w) == any(<<w.matchedActions # <<>> >>)

\* generate(), lines 72-77: some list of actions is not empty
hasActions(w) ==
    any(<<w.matchedActions # <<>>,
          w.notMatchedActions # <<>>,
          w.notMatchedBySourceActions # <<>> >>)

\* the list sql with the not-matched lines put first
generateSql_notMatchedFirst(w) ==
    << "MERGE INTO " \o w.tblName \o " AS " \o w.targetAs,
       "USING " \o w.viewName[1] \o " AS " \o w.sourceAs,
       "ON " \o w.condition[1] >>
    \o w.notMatchedActions
    \o w.matchedActions
    \o w.notMatchedBySourceActions

\* generate(), lines 79-86: the list sql (reached only past hasParameters)
generateSql(w) ==
    << "MERGE INTO " \o w.tblName \o " AS " \o w.targetAs,
       "USING " \o w.viewName[1] \o " AS " \o w.sourceAs,
       "ON " \o w.condition[1] >>
    \o w.matchedActions
    \o w.notMatchedActions
    \o w.notMatchedBySourceActions

\* generate() that clears the actions before it validates
generate_clearsFirst(w) ==
    IF ~hasParameters(w) THEN
        [writer |-> clearActions(w),
         ret |-> Outcome("ValueError",
                         ModuleName \o ".generate(): Missing required parameters.",
                         <<>>, "")]
    ELSE IF ~hasActions(w) THEN
        [writer |-> w,
         ret |-> Outcome("ValueError",
                         ModuleName \o ".generate(): No merge actions provided.",
                         <<>>, "")]
    ELSE
        LET sql == generateSql(w) IN
        [writer |-> clearActions(w),
         ret |-> Outcome("str", join("\n", sql), sql, "")]

\* generate() that forgets the source relation with the actions
generate_forgetsSource(w) ==
    IF ~hasParameters(w) THEN
        [writer |-> w,
         ret |-> Outcome("ValueError",
                         ModuleName \o ".generate(): Missing required parameters.",
                         <<>>, "")]
    ELSE IF ~hasActions(w) THEN
        [writer |-> w,
         ret |-> Outcome("ValueError",
                         ModuleName \o ".generate(): No merge actions provided.",
                         <<>>, "")]
    ELSE
        LET sql == generateSql(w) IN
        [writer |-> [clearActions(w) EXCEPT !.viewName = None],
         ret |-> Outcome("str", join("\n", sql), sql, "")]

\* generate(): the writer it leaves and what it returns or raises
generate(w) ==
    IF ~hasParameters(w) THEN
        [writer |-> w,
         ret |-> Outcome("ValueError",
                         ModuleName \o ".generate(): Missing required parameters.",
                         <<>>, "")]
    ELSE IF ~hasActions(w) THEN
        [writer |-> w,
         ret |-> Outcome("ValueError",
                         ModuleName \o ".generate(): No merge actions provided.",
                         <<>>, "")]
    ELSE
        LET sql == generateSql(w) IN
        [writer |-> clearActions(w),
         ret |-> Outcome("str", join("\n", sql), sql, "")]

-----------------------------------------------------------------------------
(* The branch scope classes nested in MergeIntoWriter.                     *)

\* WhenMatched.__init__ and the two classes like it
Scope(cls, w, c) == [cls |-> cls, writer |-> w.self, condition |-> c]

whenMatched(w, c) == Scope("WhenMatched", w, c)

whenNotMatched(w, c) == Scope("WhenNotMatched", w, c)

whenNotMatchedBySource(w, c) == Scope("WhenNotMatchedBySource", w, c)

WhenMatched_genWhen(s) ==
    IF Truthy(s.condition) THEN "WHEN MATCHED AND " \o s.condition[1]
    ELSE "WHEN MATCHED"

\* _genWhen() copied from WhenMatched with the guarded prefix left as it was
WhenNotMatched_genWhen_copied(s) ==
    IF Truthy(s.condition) THEN "WHEN MATCHED AND " \o s.condition[1]
    ELSE "WHEN NOT MATCHED"

WhenNotMatched_genWhen(s) ==
    IF Truthy(s.condition) THEN "WHEN NOT MATCHED AND " \o s.condition[1]
    ELSE "WHEN NOT MATCHED"

WhenNotMatchedBySource_genWhen(s) ==
    IF Truthy(s.condition) THEN "WHEN NOT MATCHED BY SOURCE AND " \o s.condition[1]
    ELSE "WHEN NOT MATCHED BY SOURCE"

WhenMatched_updateAll(w, s) ==
    [w EXCEPT !.matchedActions =
        Append(@, WhenMatched_genWhen(s) \o " THEN UPDATE SET *")]

WhenMatched_updateExpr(w, s, set) ==
    [w EXCEPT !.matchedActions =
        Append(@, WhenMatched_genWhen(s) \o " THEN UPDATE SET " \o set)]

\* delete() that assigns the list instead of appending to it
WhenMatched_delete_assigns(w, s) ==
    [w EXCEPT !.matchedActions = <<WhenMatched_genWhen(s) \o " THEN DELETE">>]

WhenMatched_delete(w, s) ==
    [w EXCEPT !.matchedActions =
        Append(@, WhenMatched_genWhen(s) \o " THEN DELETE")]

WhenNotMatched_insertAll(w, s) ==
    [w EXCEPT !.notMatchedActions =
        Append(@, WhenNotMatched_genWhen(s) \o " THEN INSERT *")]

\* insertExpr() that puts its line first
WhenNotMatched_insertExpr_first(w, s, values) ==
    [w EXCEPT !.notMatchedActions =
        <<WhenNotMatched_genWhen(s) \o " THEN INSERT " \o values>> \o @]

WhenNotMatched_insertExpr(w, s, values) ==
    [w EXCEPT !.notMatchedActions =
        Append(@, WhenNotMatched_genWhen(s) \o " THEN INSERT " \o values)]

\* updateAll() copied from WhenMatched with the list left as it was
WhenNotMatchedBySource_updateAll_copied(w, s) ==
    [w EXCEPT !.matchedActions =
        Append(@, WhenNotMatchedBySource_genWhen(s) \o " THEN UPDATE SET *")]

WhenNotMatchedBySource_updateAll(w, s) ==
    [w EXCEPT !.notMatchedBySourceActions =
        Append(@, WhenNotMatchedBySource_genWhen(s) \o " THEN UPDATE SET *")]

WhenNotMatchedBySource_updateExpr(w, s, set) ==
    [w EXCEPT !.notMatchedBySourceActions =
        Append(@, WhenNotMatchedBySource_genWhen(s) \o " THEN UPDATE SET " \o set)]

WhenNotMatchedBySource_delete(w, s) ==
    [w EXCEPT !.notMatchedBySourceActions =
        Append(@, WhenNotMatchedBySource_genWhen(s) \o " THEN DELETE")]

-----------------------------------------------------------------------------------------------------------------------------------------------------
(* class MergeUtils (src/pychan/sql/utils.py)                              *)

Min(a, b) == IF a <= b THEN a ELSE b

Max(a, b) == IF a >= b THEN a ELSE b

\* zip(xs, ys): the pairs up to the end of the shorter list
zip(xs, ys) == [i \in 1..Min(Len(xs), Len(ys)) |-> <<xs[i], ys[i]>>]

\* truth value of an Optional[List]: neither None nor empty
TruthyList(o) == o # None /\ o[1] # <<>>

\* x in c, for c a set or a list: [kind |-> "set" or "list", elems |-> ...]
In(x, c) ==
    IF c.kind = "set" THEN x \in c.elems
    ELSE \E i \in 1..Len(c.elems) : c.elems[i] = x

\* truth value of an Optional[Set | List]: neither None nor empty
TruthyContainer(o) ==
    /\ o # None
    /\ IF o[1].kind = "set" THEN o[1].elems # {} ELSE o[1].elems # <<>>

\* [c for c in list if c not in ignore]
RECURSIVE notIn(_, _)
notIn(list, ignore) ==
    IF list = <<>> THEN <<>>
    ELSE IF In(list[1], ignore) THEN notIn(Tail(list), ignore)
    ELSE <<list[1]>> \o notIn(Tail(list), ignore)

\* the first occurrences of the elements of list, in order
RECURSIVE unique(_)
unique(list) ==
    IF list = <<>> THEN <<>>
    ELSE LET n == Len(list)
             front == unique(SubSeq(list, 1, n - 1))
         IN  IF \E i \in 1..Len(front) : front[i] = list[n] THEN front
             ELSE Append(front, list[n])

\* _genIdCondition that names every column once
genIdCondition_unique(idColsName) ==
    LET names == unique(idColsName) IN
    join(" AND ",
         [i \in 1..Len(names) |->
             "target." \o names[i] \o " = source." \o names[i]])

genIdCondition(idColsName) ==
    join(" AND ",
         [i \in 1..Len(idColsName) |->
             "target." \o idColsName[i] \o " = source." \o idColsName[i]])

\* _genPartitionCondition that pairs up to the end of the longer list
genPartitionCondition_longest(partitionColsName, partitionValues) ==
    LET n == Max(Len(partitionColsName), Len(partitionValues))
        col(i) == IF i <= Len(partitionColsName) THEN partitionColsName[i] ELSE "None"
        val(i) == IF i <= Len(partitionValues) THEN partitionValues[i] ELSE "None"
    IN  join(" AND ", [i \in 1..n |-> "target." \o col(i) \o " IN (" \o val(i) \o ")"])

genPartitionCondition(partitionColsName, partitionValues) ==
    LET pairs == zip(partitionColsName, partitionValues) IN
    join(" AND ",
         [i \in 1..Len(pairs) |->
             "target." \o pairs[i][1] \o " IN (" \o pairs[i][2] \o ")"])

\* genCondition that tests its partition arguments against None only
genCondition_notNone(idColsName, partitionColsName, partitionValues) ==
    LET idCondition == genIdCondition(idColsName) IN
    IF partitionColsName # None /\ partitionValues # None THEN
        idCondition \o " AND "
            \o genPartitionCondition(partitionColsName[1], partitionValues[1])
    ELSE idCondition

genCondition(idColsName, partitionColsName, partitionValues) ==
    LET idCondition == genIdCondition(idColsName) IN
    IF TruthyList(partitionColsName) /\ TruthyList(partitionValues) THEN
        idCondition \o " AND "
            \o genPartitionCondition(partitionColsName[1], partitionValues[1])
    ELSE idCondition

\* genSet that assigns every column
genSet_keepsIgnored(colsName, ignoreColsName) ==
    join(", ", [i \in 1..Len(colsName) |-> colsName[i] \o " = source." \o colsName[i]])

genSet(colsName, ignoreColsName) ==
    LET ignore == IF TruthyContainer(ignoreColsName) THEN ignoreColsName[1]
                  ELSE [kind |-> "set", elems |-> {}]
        kept == notIn(colsName, ignore)
    IN  join(", ", [i \in 1..Len(kept) |-> kept[i] \o " = source." \o kept[i]])

\* genValues that adds the audit column of its docstring's example
genValues_createdTimestamp(colsName) ==
    LET cols == Append(colsName, "__created_timestamp") IN
    "(" \o join(", ", cols) \o ") "
        \o "VALUES "
        \o "(" \o join(", ", [i \in 1..Len(cols) |-> "source." \o cols[i]]) \o ")"

genValues(colsName) ==
    "(" \o join(", ", colsName) \o ") "
        \o "VALUES "
        \o "(" \o join(", ", [i \in 1..Len(colsName) |-> "source." \o colsName[i]]) \o ")"

\* a call of a MergeUtils method: result is None until the method returns
UtilCall(fn, args, result) == [fn |-> fn, args |-> args, result |-> result]

NoUtilCall == UtilCall("", <<>>, None)

\* the method named by a call, applied to the call's arguments
Returned(call, result) == [call EXCEPT !.result = Some(result)]

-----------------------------------------------------------------------------
(* Writers as objects: a list attribute holds a reference to a list        *)
(* object, and append() and clear() change the object in place.            *)

\* the caller's variables that can hold a writer
BuilderIds == {"w1", "w2"}

\* the heap: writers maps a variable to None or Some(the writer it holds,
\* its three list attributes being indices of lists); lists are the list
\* objects
NoBuilders == [writers |-> [b \in BuilderIds |-> None], lists |-> <<>>]

\* __init__ that takes the lists of the class instead of new ones
newLists_shared(h) ==
    IF Len(h.lists) >= 3 THEN <<1, 2, 3>>
    ELSE <<Len(h.lists) + 1, Len(h.lists) + 2, Len(h.lists) + 3>>

\* the three [] of __init__: new list objects
newLists(h) == <<Len(h.lists) + 1, Len(h.lists) + 2, Len(h.lists) + 3>>

\* MergeIntoWriter(tbl), bound to variable id
construct(h, id, tbl) ==
    LET refs == newLists(h)
        n == Max(Len(h.lists), refs[3])
    IN  [writers |-> [h.writers EXCEPT ![id] =
                         Some([MergeIntoWriter(id, tbl) EXCEPT
                                  !.matchedActions = refs[1],
                                  !.notMatchedActions = refs[2],
                                  !.notMatchedBySourceActions = refs[3]])],
         lists |-> [r \in 1..n |-> IF r <= Len(h.lists) THEN h.lists[r] ELSE <<>>]]

\* the writer in variable id, with the contents of its lists
Load(h, id) ==
    LET w == h.writers[id][1] IN
    [w EXCEPT !.matchedActions = h.lists[w.matchedActions],
              !.notMatchedActions = h.lists[w.notMatchedActions],
              !.notMatchedBySourceActions = h.lists[w.notMatchedBySourceActions]]

\* the heap after a method has left the writer in variable id as w2: the
\* attributes are assigned and the list objects changed in place
Store(h, id, w2) ==
    LET w == h.writers[id][1] IN
    [writers |-> [h.writers EXCEPT ![id] =
                     Some([w2 EXCEPT
                              !.matchedActions = w.matchedActions,
                              !.notMatchedActions = w.notMatchedActions,
                              !.notMatchedBySourceActions = w.notMatchedBySourceActions])],
     lists |-> [r \in 1..Len(h.lists) |->
                   IF r = w.notMatchedBySourceActions THEN w2.notMatchedBySourceActions
                   ELSE IF r = w.notMatchedActions THEN w2.notMatchedActions
                   ELSE IF r = w.matchedActions THEN w2.matchedActions
                   ELSE h.lists[r]]]

\* no generate() call in progress. pc is the place of the call, error the
\* exception it is about to raise, sql its local list, seen the number of
\* lines it took from each list, lost the lines its clear() calls removed
\* that sql does not hold
Idle ==
    [pc |-> "idle", error |-> None, sql |-> <<>>,
     seen |-> [WhenMatched |-> 0, WhenNotMatched |-> 0, WhenNotMatchedBySource |-> 0],
     lost |-> <<>>]

\* the lines of list past the first n
After(list, n) == SubSeq(list, n + 1, Len(list))

\* self._matchedActions.clear() that removes nothing
clearMatched_skips(w) == w

\* the three statements of _clearActions, one by one
clearMatched(w) == [w EXCEPT !.matchedActions = <<>>]

clearNotMatched(w) == [w EXCEPT !.notMatchedActions = <<>>]

clearNotMatchedBySource(w) == [w EXCEPT !.notMatchedBySourceActions = <<>>]

-----------------------------------------------------------------------------
(* One caller driving one writer: every step is one call.                  *)

\* the number of action lines the writer holds
Recorded(w) ==
    Len(w.matchedActions) + Len(w.notMatchedActions)
        + Len(w.notMatchedBySourceActions)

\* variable v holds a scope object of class cls
Holds(v, cls) == scopes[v] # None /\ scopes[v][1].cls = cls

\* the record of an action call: the predicate of the scope it was made on,
\* the method and its argument
Call(s, method, arg) == [condition |-> s.condition, method |-> method, arg |-> arg]

NoCalls ==
    [WhenMatched |-> <<>>, WhenNotMatched |-> <<>>, WhenNotMatchedBySource |-> <<>>]

\* writer = MergeIntoWriter(tbl)
Init ==
    /\ \E tbl \in TableNames : writer = MergeIntoWriter("w", tbl)
    /\ scopes = [v \in ScopeVars |-> None]
    /\ ret = Outcome("writer", "", <<>>, "w")
    /\ calls = NoCalls
    /\ used = [v \in ScopeVars |-> FALSE]
    /\ reuse = None
    /\ util = NoUtilCall
    /\ builders = NoBuilders
    /\ render = Idle
    /\ acting = None

\* writer.using(v)
UsingCall(v) ==
    /\ writer' = using(writer, v)
    /\ ret' = ReturnsWriter(writer)
    /\ reuse' = None
    /\ UNCHANGED <<scopes, calls, used, util, builders, render, acting>>

Using == \E v \in ViewNames : UsingCall(v)

\* writer.on(c)
OnCall(c) ==
    /\ writer' = on(writer, c)
    /\ ret' = ReturnsWriter(writer)
    /\ reuse' = None
    /\ UNCHANGED <<scopes, calls, used, util, builders, render, acting>>

On == \E c \in JoinConditions : OnCall(c)

\* writer.generate()
Generate ==
    /\ writer' = generate(writer).writer
    /\ ret' = generate(writer).ret
    /\ calls' = IF generate(writer).ret.kind = "str" THEN NoCalls ELSE calls
    /\ reuse' = IF generate(writer).ret.kind = "str"
                THEN Some([header |-> SubSeq(generate(writer).ret.sql, 1, 3),
                           again |-> reuse # None])
                ELSE reuse
    /\ UNCHANGED <<scopes, used, util, builders, render, acting>>

\* v = <the scope s a scope-creating method returned>
NewScope(v, s) ==
    /\ scopes' = [scopes EXCEPT ![v] = Some(s)]
    /\ ret' = Outcome("scope", "", <<>>, v)
    /\ used' = [used EXCEPT ![v] = FALSE]
    /\ UNCHANGED <<writer, calls, reuse, util, builders, render, acting>>

\* v = writer.whenMatched(c)
WhenMatched(V, C) ==
    \E v \in V, c \in C : NewScope(v, whenMatched(writer, c))

\* v = writer.whenNotMatched(c)
WhenNotMatched(V, C) ==
    \E v \in V, c \in C : NewScope(v, whenNotMatched(writer, c))

\* v = writer.whenNotMatchedBySource(c)
WhenNotMatchedBySource(V, C) ==
    \E v \in V, c \in C : NewScope(v, whenNotMatchedBySource(writer, c))

\* <the scope in v>.<method>(arg), whose effect on the writer is w
Act(v, method, arg, w) ==
    /\ Recorded(writer) < MaxActions
    /\ writer' = w
    /\ ret' = ReturnsWriter(w)
    /\ calls' = [calls EXCEPT ![scopes[v][1].cls] =
                    Append(@, Call(scopes[v][1], method, arg))]
    /\ reuse' = IF Recorded(writer) = 0 THEN reuse ELSE None
    /\ used' = [used EXCEPT ![v] = TRUE]
    /\ UNCHANGED <<scopes, util, builders, render, acting>>

MatchedUpdateAll(V) ==
    \E v \in V :
        /\ Holds(v, "WhenMatched")
        /\ Act(v, "updateAll", "", WhenMatched_updateAll(writer, scopes[v][1]))

MatchedUpdateExpr(V) ==
    \E v \in V, set \in SetClauses :
        /\ Holds(v, "WhenMatched")
        /\ Act(v, "updateExpr", set, WhenMatched_updateExpr(writer, scopes[v][1], set))

MatchedDelete(V) ==
    \E v \in V :
        /\ Holds(v, "WhenMatched")
        /\ Act(v, "delete", "", WhenMatched_delete(writer, scopes[v][1]))

NotMatchedInsertAll(V) ==
    \E v \in V :
        /\ Holds(v, "WhenNotMatched")
        /\ Act(v, "insertAll", "", WhenNotMatched_insertAll(writer, scopes[v][1]))

NotMatchedInsertExpr(V) ==
    \E v \in V, values \in ValuesClauses :
        /\ Holds(v, "WhenNotMatched")
        /\ Act(v, "insertExpr", values,
               WhenNotMatched_insertExpr(writer, scopes[v][1], values))

NotMatchedBySourceUpdateAll(V) ==
    \E v \in V :
        /\ Holds(v, "WhenNotMatchedBySource")
        /\ Act(v, "updateAll", "",
               WhenNotMatchedBySource_updateAll(writer, scopes[v][1]))

NotMatchedBySourceUpdateExpr(V) ==
    \E v \in V, set \in SetClauses :
        /\ Holds(v, "WhenNotMatchedBySource")
        /\ Act(v, "updateExpr", set,
               WhenNotMatchedBySource_updateExpr(writer, scopes[v][1], set))

NotMatchedBySourceDelete(V) ==
    \E v \in V :
        /\ Holds(v, "WhenNotMatchedBySource")
        /\ Act(v, "delete", "", WhenNotMatchedBySource_delete(writer, scopes[v][1]))

\* the action calls on the scopes held in the variables V
Actions(V) ==
    \/ MatchedUpdateAll(V)
    \/ MatchedUpdateExpr(V)
    \/ MatchedDelete(V)
    \/ NotMatchedInsertAll(V)
    \/ NotMatchedInsertExpr(V)
    \/ NotMatchedBySourceUpdateAll(V)
    \/ NotMatchedBySourceUpdateExpr(V)
    \/ NotMatchedBySourceDelete(V)

\* The life of a writer: any table name, any using() and on().
Next ==
    \/ Using
    \/ On
    \/ Generate
    \/ WhenMatched(ScopeVars, GuardConditions)
    \/ WhenNotMatched(ScopeVars, GuardConditions)
    \/ WhenNotMatchedBySource(ScopeVars, GuardConditions)
    \/ Actions(ScopeVars)

Spec == Init /\ [][Next]_vars

\* The branches of a configured writer: every kind of predicate.
InitBranch ==
    /\ writer = on(using(MergeIntoWriter("w", "lh.Sales"), "{df}"), "target.id = source.id")
    /\ scopes = [v \in ScopeVars |-> None]
    /\ ret = Outcome("writer", "", <<>>, "w")
    /\ calls = NoCalls
    /\ used = [v \in ScopeVars |-> FALSE]
    /\ reuse = None
    /\ util = NoUtilCall
    /\ builders = NoBuilders
    /\ render = Idle
    /\ acting = None

NextBranch ==
    \/ Generate
    \/ WhenMatched(ScopeVars, BranchConditions)
    \/ WhenNotMatched(ScopeVars, BranchConditions)
    \/ WhenNotMatchedBySource(ScopeVars, BranchConditions)
    \/ Actions(ScopeVars)

SpecBranch == InitBranch /\ [][NextBranch]_vars

-----------------------------------------------------------------------------
(* A caller of the clause generators: the initial state holds one call of  *)
(* a method of chanutils.merge on arguments drawn from the bounded lists,  *)
(* and the step is the method's return.                                    *)

\* the column lists, and the optional ones, a caller passes
ColumnLists == Lists(ColumnNames, MaxCols)

OptionalColumnLists == {None} \cup {Some(l) : l \in ColumnLists}

OptionalValueLists == {None} \cup {Some(l) : l \in Lists(PartitionValues, MaxCols)}

\* the ignoreColsName arguments: absent, a set of names, or a list of names
IgnoreArguments ==
    {None}
        \cup {Some([kind |-> "set", elems |-> S]) : S \in SUBSET IgnoredNames}
        \cup {Some([kind |-> "list", elems |-> l]) : l \in {<<>>, <<"a">>, <<"z", "b">>}}

\* the calls a caller can make
UtilCalls ==
    {UtilCall("_genIdCondition", <<ids>>, None) : ids \in ColumnLists}
        \cup {UtilCall("_genPartitionCondition", <<cols, vals>>, None) :
                  cols \in ColumnLists, vals \in Lists(PartitionValues, MaxCols)}
        \cup {UtilCall("genCondition", <<ids, cols, vals>>, None) :
                  ids \in ColumnLists, cols \in OptionalColumnLists,
                  vals \in OptionalValueLists}
        \cup {UtilCall("genSet", <<cols, ignore>>, None) :
                  cols \in ColumnLists, ignore \in IgnoreArguments}
        \cup {UtilCall("genValues", <<cols>>, None) : cols \in ColumnLists}

Pending(fn) == util.fn = fn /\ util.result = None

InitUtils ==
    /\ writer = MergeIntoWriter("w", "lh.Sales")
    /\ scopes = [v \in ScopeVars |-> None]
    /\ ret = Outcome("writer", "", <<>>, "w")
    /\ calls = NoCalls
    /\ used = [v \in ScopeVars |-> FALSE]
    /\ reuse = None
    /\ util \in UtilCalls
    /\ builders = NoBuilders
    /\ render = Idle
    /\ acting = None

GenIdCondition ==
    /\ Pending("_genIdCondition")
    /\ util' = Returned(util, genIdCondition(util.args[1]))
    /\ UNCHANGED <<writerVars, builders, render, acting>>

GenPartitionCondition ==
    /\ Pending("_genPartitionCondition")
    /\ util' = Returned(util, genPartitionCondition(util.args[1], util.args[2]))
    /\ UNCHANGED <<writerVars, builders, render, acting>>

GenCondition ==
    /\ Pending("genCondition")
    /\ util' = Returned(util, genCondition(util.args[1], util.args[2], util.args[3]))
    /\ UNCHANGED <<writerVars, builders, render, acting>>

GenSet ==
    /\ Pending("genSet")
    /\ util' = Returned(util, genSet(util.args[1], util.args[2]))
    /\ UNCHANGED <<writerVars, builders, render, acting>>

GenValues ==
    /\ Pending("genValues")
    /\ util' = Returned(util, genValues(util.args[1]))
    /\ UNCHANGED <<writerVars, builders, render, acting>>

NextUtils ==
    \/ GenIdCondition
    \/ GenPartitionCondition
    \/ GenCondition
    \/ GenSet
    \/ GenValues

SpecUtils == InitUtils /\ [][NextUtils]_vars

-----------------------------------------------------------------------------
(* A caller that joins on a generated condition:                           *)
(*   writer.on(chanutils.merge.genCondition(idColsName))                   *)
(* on a writer whose target table and source relation are set.             *)

\* the calls that generate a join condition from key columns alone
ConditionCalls ==
    {UtilCall("_genIdCondition", <<ids>>, None) : ids \in ColumnLists}
        \cup {UtilCall("genCondition", <<ids, None, None>>, None) : ids \in ColumnLists}

InitCondition ==
    /\ writer = using(MergeIntoWriter("w", "lh.Sales"), "{df}")
    /\ scopes = [v \in ScopeVars |-> None]
    /\ ret = Outcome("writer", "", <<>>, "w")
    /\ calls = NoCalls
    /\ used = [v \in ScopeVars |-> FALSE]
    /\ reuse = None
    /\ util \in ConditionCalls
    /\ builders = NoBuilders
    /\ render = Idle
    /\ acting = None

\* writer.on(<the condition the generator returned>)
OnResult ==
    /\ util.result # None
    /\ writer.condition = None
    /\ OnCall(util.result[1])

NextCondition ==
    \/ GenIdCondition
    \/ GenCondition
    \/ OnResult
    \/ WhenMatched(ScopeVars, GuardConditions)
    \/ MatchedUpdateAll(ScopeVars)
    \/ MatchedDelete(ScopeVars)
    \/ Generate

SpecCondition == InitCondition /\ [][NextCondition]_vars

-----------------------------------------------------------------------------
(* One caller driving two writers: every step is one call, or one chain    *)
(* w.whenX().action(), on either writer.                                   *)

InitBuilders ==
    /\ writer = MergeIntoWriter("w", "lh.Sales")
    /\ scopes = [v \in ScopeVars |-> None]
    /\ ret = Outcome("writer", "", <<>>, "w")
    /\ calls = NoCalls
    /\ used = [v \in ScopeVars |-> FALSE]
    /\ reuse = None
    /\ util = NoUtilCall
    /\ builders = NoBuilders
    /\ render = Idle
    /\ acting = None

Constructed(b) == builders.writers[b] # None

\* b = dataset.mergeInto(tbl)
MergeInto(b) ==
    /\ ~Constructed(b)
    /\ \E tbl \in TableNames \ {""} :
           /\ builders' = construct(builders, b, tbl)
           /\ ret' = Outcome("writer", "", <<>>, b)
    /\ UNCHANGED <<writer, scopes, calls, used, reuse, util, render, acting>>

\* b.using(v)
BuilderUsing(b) ==
    /\ Constructed(b)
    /\ \E v \in ViewNames \ {""} :
           builders' = Store(builders, b, using(Load(builders, b), v))
    /\ ret' = ReturnsWriter(Load(builders, b))
    /\ UNCHANGED <<writer, scopes, calls, used, reuse, util, render, acting>>

\* b.on(c)
BuilderOn(b) ==
    /\ Constructed(b)
    /\ \E c \in JoinConditions \ {""} :
           builders' = Store(builders, b, on(Load(builders, b), c))
    /\ ret' = ReturnsWriter(Load(builders, b))
    /\ UNCHANGED <<writer, scopes, calls, used, reuse, util, render, acting>>

\* the writers that w.whenX().action() leaves
Chained(w) ==
    { WhenMatched_updateAll(w, whenMatched(w, None)),
      WhenMatched_delete(w, whenMatched(w, None)),
      WhenNotMatched_insertAll(w, whenNotMatched(w, None)),
      WhenNotMatchedBySource_delete(w, whenNotMatchedBySource(w, None)) }

\* b.whenX().action()
BuilderAction(b) ==
    /\ Constructed(b)
    /\ Recorded(Load(builders, b)) < MaxActions
    /\ \E w2 \in Chained(Load(builders, b)) :
           builders' = Store(builders, b, w2)
    /\ ret' = ReturnsWriter(Load(builders, b))
    /\ UNCHANGED <<writer, scopes, calls, used, reuse, util, render, acting>>

\* b.generate()
BuilderGenerate(b) ==
    /\ Constructed(b)
    /\ builders' = Store(builders, b, generate(Load(builders, b)).writer)
    /\ ret' = generate(Load(builders, b)).ret
    /\ UNCHANGED <<writer, scopes, calls, used, reuse, util, render, acting>>

NextBuilders ==
    \E b \in BuilderIds :
        \/ MergeInto(b)
        \/ BuilderUsing(b)
        \/ BuilderOn(b)
        \/ BuilderAction(b)
        \/ BuilderGenerate(b)

SpecBuilders == InitBuilders /\ [][NextBuilders]_vars

-----------------------------------------------------------------------------
(* One writer and two threads, without a lock. One thread calls            *)
(* generate(); the other creates scopes and calls one action of each       *)
(* class. A step is a piece of a call that the other thread's pieces can   *)
(* come between: a test and its raise, the reading of each list into sql,  *)
(* each clear(), an append() and the return that follows it.               *)

\* generate(), lines 65-69 and 72-76: the tests all([...]) and any([...])
RenderTest ==
    /\ render.pc = "idle"
    /\ render' = IF generate(writer).ret.kind = "ValueError"
                 THEN [render EXCEPT !.pc = "raise", !.error = Some(generate(writer).ret)]
                 ELSE [render EXCEPT !.pc = "tested"]
    /\ UNCHANGED <<writer, scopes, ret, calls, used, reuse, util, builders, acting>>

\* generate(), lines 70 and 77: raise ValueError(...)
RenderRaise ==
    /\ render.pc = "raise"
    /\ ret' = render.error[1]
    /\ render' = Idle
    /\ UNCHANGED <<writer, scopes, calls, used, reuse, util, builders, acting>>

\* generate(), lines 79-83: the three header lines and *self._matchedActions
RenderReadMatched ==
    /\ render.pc = "tested"
    /\ render' = [render EXCEPT
                     !.pc = "readMatched",
                     !.sql = SubSeq(generateSql(writer), 1, 3) \o writer.matchedActions,
                     !.seen.WhenMatched = Len(writer.matchedActions)]
    /\ UNCHANGED <<writer, scopes, ret, calls, used, reuse, util, builders, acting>>

\* generate(), line 84: *self._notMatchedActions
RenderReadNotMatched ==
    /\ render.pc = "readMatched"
    /\ render' = [render EXCEPT
                     !.pc = "readNotMatched",
                     !.sql = @ \o writer.notMatchedActions,
                     !.seen.WhenNotMatched = Len(writer.notMatchedActions)]
    /\ UNCHANGED <<writer, scopes, ret, calls, used, reuse, util, builders, acting>>

\* generate(), line 85: *self._notMatchedBySourceActions
RenderReadNotMatchedBySource ==
    /\ render.pc = "readNotMatched"
    /\ render' = [render EXCEPT
                     !.pc = "composed",
                     !.sql = @ \o writer.notMatchedBySourceActions,
                     !.seen.WhenNotMatchedBySource = Len(writer.notMatchedBySourceActions)]
    /\ UNCHANGED <<writer, scopes, ret, calls, used, reuse, util, builders, acting>>

\* _clearActions(), line 37
RenderClearMatched ==
    /\ render.pc = "composed"
    /\ writer' = clearMatched(writer)
    /\ render' = [render EXCEPT
                     !.pc = "clearedMatched",
                     !.lost = @ \o After(writer.matchedActions, render.seen.WhenMatched)]
    /\ calls' = [calls EXCEPT !.WhenMatched = <<>>]
    /\ UNCHANGED <<scopes, ret, used, reuse, util, builders, acting>>

\* _clearActions(), line 38
RenderClearNotMatched ==
    /\ render.pc = "clearedMatched"
    /\ writer' = clearNotMatched(writer)
    /\ render' = [render EXCEPT
                     !.pc = "clearedNotMatched",
                     !.lost = @ \o After(writer.notMatchedActions,
                                         render.seen.WhenNotMatched)]
    /\ calls' = [calls EXCEPT !.WhenNotMatched = <<>>]
    /\ UNCHANGED <<scopes, ret, used, reuse, util, builders, acting>>

\* _clearActions(), line 39
RenderClearNotMatchedBySource ==
    /\ render.pc = "clearedNotMatched"
    /\ writer' = clearNotMatchedBySource(writer)
    /\ render' = [render EXCEPT
                     !.pc = "cleared",
                     !.lost = @ \o After(writer.notMatchedBySourceActions,
                                         render.seen.WhenNotMatchedBySource)]
    /\ calls' = [calls EXCEPT !.WhenNotMatchedBySource = <<>>]
    /\ UNCHANGED <<scopes, ret, used, reuse, util, builders, acting>>

\* generate(), line 89: return "\n".join(sql)
RenderReturn ==
    /\ render.pc = "cleared"
    /\ ret' = Outcome("str", join("\n", render.sql), render.sql, "")
    /\ render' = Idle
    /\ UNCHANGED <<writer, scopes, calls, used, reuse, util, builders, acting>>

\* the other thread's scopes have no predicate
NoCondition == {None}

\* v = writer.whenX(), by the thread that has no call in progress
ThreadWhenMatched == acting = None /\ WhenMatched(ScopeVars, NoCondition)

ThreadWhenNotMatched == acting = None /\ WhenNotMatched(ScopeVars, NoCondition)

ThreadWhenNotMatchedBySource ==
    acting = None /\ WhenNotMatchedBySource(ScopeVars, NoCondition)

\* <the scope in v>.<method>(arg) up to its append(), which leaves the
\* writer as w
ActAppend(v, method, arg, w) ==
    /\ acting = None
    /\ Recorded(writer) < MaxActions
    /\ writer' = w
    /\ calls' = [calls EXCEPT ![scopes[v][1].cls] =
                    Append(@, Call(scopes[v][1], method, arg))]
    /\ reuse' = IF Recorded(writer) = 0 THEN reuse ELSE None
    /\ used' = [used EXCEPT ![v] = TRUE]
    /\ acting' = Some(v)
    /\ UNCHANGED <<scopes, ret, util, builders, render>>

\* WhenMatched.delete(), line 133
ThreadMatchedDelete ==
    \E v \in ScopeVars :
        /\ Holds(v, "WhenMatched")
        /\ ActAppend(v, "delete", "", WhenMatched_delete(writer, scopes[v][1]))

\* WhenNotMatched.insertAll(), line 149
ThreadNotMatchedInsertAll ==
    \E v \in ScopeVars :
        /\ Holds(v, "WhenNotMatched")
        /\ ActAppend(v, "insertAll", "", WhenNotMatched_insertAll(writer, scopes[v][1]))

\* WhenNotMatchedBySource.updateAll(), line 172
ThreadNotMatchedBySourceUpdateAll ==
    \E v \in ScopeVars :
        /\ Holds(v, "WhenNotMatchedBySource")
        /\ ActAppend(v, "updateAll", "",
                     WhenNotMatchedBySource_updateAll(writer, scopes[v][1]))

\* return self.writer, of the action call in progress
ActReturn ==
    /\ acting # None
    /\ ret' = ReturnsWriter(writer)
    /\ acting' = None
    /\ UNCHANGED <<writer, scopes, calls, used, reuse, util, builders, render>>

NextThreads ==
    \/ RenderTest
    \/ RenderRaise
    \/ RenderReadMatched
    \/ RenderReadNotMatched
    \/ RenderReadNotMatchedBySource
    \/ RenderClearMatched
    \/ RenderClearNotMatched
    \/ RenderClearNotMatchedBySource
    \/ RenderReturn
    \/ ThreadWhenMatched
    \/ ThreadWhenNotMatched
    \/ ThreadWhenNotMatchedBySource
    \/ ThreadMatchedDelete
    \/ ThreadNotMatchedInsertAll
    \/ ThreadNotMatchedBySourceUpdateAll
    \/ ActReturn

SpecThreads == InitBranch /\ [][NextThreads]_vars

-----------------------------------------------------------------------------
(* The vocabulary of the properties, stated apart from the operators       *)
(* above.                                                                  *)

\* target table, source relation and join condition are all set and non-empty
Configured ==
    /\ writer.tblName # ""
    /\ writer.viewName # None /\ writer.viewName # Some("")
    /\ writer.condition # None /\ writer.condition # Some("")

\* at least one action sequence holds a line
HasActions ==
    \/ Len(writer.matchedActions) > 0
    \/ Len(writer.notMatchedActions) > 0
    \/ Len(writer.notMatchedBySourceActions) > 0

\* the lines, each followed by a newline but the last
RECURSIVE JoinedByNewlines(_)
JoinedByNewlines(lines) ==
    IF Len(lines) = 0 THEN ""
    ELSE IF Len(lines) = 1 THEN lines[1]
    ELSE JoinedByNewlines(SubSeq(lines, 1, Len(lines) - 1)) \o "\n" \o lines[Len(lines)]

\* the three lines that open the statement of a configured writer
Header ==
    << "MERGE INTO " \o writer.tblName \o " AS target",
       "USING " \o writer.viewName[1] \o " AS source",
       "ON " \o writer.condition[1] >>

MissingConfigurationError ==
    [kind |-> "ValueError",
     text |-> "pychan.sql.merge.generate(): Missing required parameters.",
     sql |-> <<>>, obj |-> ""]

NoActionsError ==
    [kind |-> "ValueError",
     text |-> "pychan.sql.merge.generate(): No merge actions provided.",
     sql |-> <<>>, obj |-> ""]

\* C1: a render of a configured writer that holds actions returns, joined by
\* newlines, the three header lines, then the matched lines, then the
\* not-matched lines, then the not-matched-by-source lines, each in call
\* order: 3 + (recorded actions) lines in all.
C1_RenderedStatement ==
    [][ (Generate /\ Configured /\ HasActions) =>
            LET lines == Header \o writer.matchedActions
                                \o writer.notMatchedActions
                                \o writer.notMatchedBySourceActions
            IN  /\ ret'.kind = "str"
                /\ ret'.sql = lines
                /\ Len(ret'.sql) = 3 + Recorded(writer)
                /\ ret'.text = JoinedByNewlines(lines) ]_vars

\* the statement of generate()'s docstring has been rendered
C1_Witness ==
    /\ ret.kind = "str"
    /\ ret.text = "MERGE INTO lh.Sales AS target\nUSING {df} AS source\nON target.id = source.id\nWHEN MATCHED THEN UPDATE SET *\nWHEN NOT MATCHED THEN INSERT *"

\* C2: a render of a writer whose target table, source relation or join
\* condition is unset or empty raises the missing-configuration error,
\* whether or not an action is recorded.
C2_MissingConfiguration ==
    [][ (Generate /\ ~Configured) => ret' = MissingConfigurationError ]_vars

\* a render failed for an empty source relation, with nothing recorded
C2_Witness ==
    /\ ret = MissingConfigurationError
    /\ writer.tblName # ""
    /\ writer.viewName = Some("")
    /\ Truthy(writer.condition)
    /\ ~HasActions

\* C3: a render of a configured writer raises the no-actions error exactly
\* when the three action sequences are empty, which is exactly when no action
\* call was made since construction or the last successful render; the error
\* differs from the missing-configuration error.
C3_NoActions ==
    [][ (Generate /\ Configured) =>
            /\ (ret' = NoActionsError) <=> ~HasActions
            /\ ~HasActions <=> (calls = NoCalls)
            /\ NoActionsError # MissingConfigurationError ]_vars

\* a render of a configured writer failed for want of actions
C3_Witness == ret = NoActionsError /\ Configured /\ calls = NoCalls

\* C4: a successful render leaves the three action sequences empty and the
\* target table, source relation, join condition and aliases as they were.
C4_RenderClearsActionsOnly ==
    [][ (Generate /\ ret'.kind = "str") =>
            /\ writer'.matchedActions = <<>>
            /\ writer'.notMatchedActions = <<>>
            /\ writer'.notMatchedBySourceActions = <<>>
            /\ writer'.tblName = writer.tblName
            /\ writer'.viewName = writer.viewName
            /\ writer'.condition = writer.condition
            /\ writer'.targetAs = "target" /\ writer.targetAs = "target"
            /\ writer'.sourceAs = "source" /\ writer.sourceAs = "source" ]_vars

\* a statement with a line of every category was rendered, and the writer
\* is left configured and without actions
C4_Witness ==
    /\ ret.kind = "str"
    /\ Len(ret.sql) = 5
    /\ Configured
    /\ ~HasActions

\* C5: a render that raises leaves the writer as it was: the three action
\* sequences, the target table, the source relation and the join condition.
C5_FailedRenderKeepsState ==
    [][ (Generate /\ ret'.kind = "ValueError") =>
            /\ writer' = writer
            /\ calls' = calls ]_vars

\* a render failed on a writer that holds recorded actions, and holds them still
C5_Witness ==
    /\ ret = MissingConfigurationError
    /\ Recorded(writer) = 2
    /\ Len(calls.WhenMatched) + Len(calls.WhenNotMatched)
         + Len(calls.WhenNotMatchedBySource) = 2

\* the prefix of a branch without an extra predicate
PlainPrefix(cls) ==
    CASE cls = "WhenMatched" -> "WHEN MATCHED"
      [] cls = "WhenNotMatched" -> "WHEN NOT MATCHED"
      [] cls = "WhenNotMatchedBySource" -> "WHEN NOT MATCHED BY SOURCE"

\* the prefix of a branch: the predicate follows AND when one is given and
\* is not empty
Prefix(cls, c) ==
    IF c = None \/ c = Some("") THEN PlainPrefix(cls)
    ELSE PlainPrefix(cls) \o " AND " \o c[1]

\* the prefix of a branch when every predicate given follows AND
PrefixOfAnyGiven(cls, c) ==
    IF c = None THEN PlainPrefix(cls)
    ELSE PlainPrefix(cls) \o " AND " \o c[1]

\* what follows the prefix in the line of an action call
Then(method, arg) ==
    CASE method = "updateAll" -> " THEN UPDATE SET *"
      [] method = "updateExpr" -> " THEN UPDATE SET " \o arg
      [] method = "delete" -> " THEN DELETE"
      [] method = "insertAll" -> " THEN INSERT *"
      [] method = "insertExpr" -> " THEN INSERT " \o arg

Classes == {"WhenMatched", "WhenNotMatched", "WhenNotMatchedBySource"}

\* the action sequence of a class of scope
Lines(w, cls) ==
    CASE cls = "WhenMatched" -> w.matchedActions
      [] cls = "WhenNotMatched" -> w.notMatchedActions
      [] cls = "WhenNotMatchedBySource" -> w.notMatchedBySourceActions

\* the lines of the action calls made, over the three classes
CallLines ==
    LET of(cls) == [i \in 1..Len(calls[cls]) |->
                        Prefix(cls, calls[cls][i].condition)
                            \o Then(calls[cls][i].method, calls[cls][i].arg)]
    IN of("WhenMatched") \o of("WhenNotMatched") \o of("WhenNotMatchedBySource")

\* C6: after a successful render, the next render with no action in between
\* raises the no-actions error; with one action added, the next render
\* succeeds with the first render's three header lines followed by the line
\* of that action alone.
C6_RenderAgain ==
    [][ (Generate /\ reuse # None) =>
            /\ Recorded(writer) = 0 => ret' = NoActionsError
            /\ Recorded(writer) = 1 =>
                   /\ ret'.kind = "str"
                   /\ Len(CallLines) = 1
                   /\ ret'.sql = reuse[1].header \o CallLines ]_vars

\* a second statement, of one action, was rendered by a writer reused
C6_Witness ==
    /\ ret.kind = "str"
    /\ reuse # None
    /\ reuse[1].again
    /\ Len(ret.sql) = 4

\* a is b, or b with lines removed or changed
Shrinks(a, b) == ~(Len(a) <= Len(b) /\ SubSeq(b, 1, Len(a)) = a)

\* C7: render succeeds exactly from (Configured, HasActions), a successful
\* render ends in (Configured, HasNoActions), and only a successful render
\* removes a line from an action sequence.
C7_StateMachine ==
    [][ /\ Generate => ((ret'.kind = "str") <=> (Configured /\ HasActions))
        /\ (Generate /\ ret'.kind = "str") => (Configured' /\ ~HasActions')
        /\ (\E cls \in Classes : Shrinks(Lines(writer, cls), Lines(writer', cls)))
              => (Generate /\ ret'.kind = "str") ]_vars

\* a render succeeded and left the writer in (Configured, HasNoActions)
C7_Witness ==
    /\ ret.kind = "str"
    /\ ret.sql[Len(ret.sql)] = "WHEN NOT MATCHED BY SOURCE THEN DELETE"
    /\ Configured
    /\ ~HasActions

\* C8: each action sequence is, in call order, the lines of the action calls
\* made on scopes of its own class since construction or the last successful
\* render.
C8_CallOrder ==
    \A cls \in Classes :
        /\ Len(Lines(writer, cls)) = Len(calls[cls])
        /\ \A i \in 1..Len(calls[cls]) :
               Lines(writer, cls)[i] =
                   Prefix(cls, calls[cls][i].condition)
                       \o Then(calls[cls][i].method, calls[cls][i].arg)

\* two matched lines are held in call order after a render that failed
C8_Witness ==
    /\ writer.matchedActions =
           <<"WHEN MATCHED AND col > 0 THEN DELETE", "WHEN MATCHED THEN UPDATE SET *">>
    /\ calls.WhenMatched[1].method = "delete"
    /\ ret = MissingConfigurationError

\* C9 as stated: every condition supplied, the empty one too, follows AND
C9_AnyConditionFollowsAnd ==
    \A cls \in Classes : \A i \in 1..Len(calls[cls]) :
        Lines(writer, cls)[i] =
            PrefixOfAnyGiven(cls, calls[cls][i].condition)
                \o Then(calls[cls][i].method, calls[cls][i].arg)

\* C9: the line of an action starts with the plain prefix of its scope when
\* the scope has no condition or an empty one, and with
\* '<plain prefix> AND <condition>' when it has a non-empty condition.
C9_Prefix ==
    \A cls \in Classes : \A i \in 1..Len(calls[cls]) :
        LET c == calls[cls][i].condition
            rest == Then(calls[cls][i].method, calls[cls][i].arg)
        IN  /\ (c = None \/ c = Some("")) =>
                   Lines(writer, cls)[i] = PlainPrefix(cls) \o rest
            /\ (c # None /\ c # Some("")) =>
                   Lines(writer, cls)[i] = PlainPrefix(cls) \o " AND " \o c[1] \o rest

\* a guarded line and the line of a scope with an empty condition are recorded
C9_Witness ==
    /\ writer.notMatchedActions =
           <<"WHEN NOT MATCHED AND col > 0 THEN INSERT *", "WHEN NOT MATCHED THEN INSERT *">>
    /\ calls.WhenNotMatched[2].condition = Some("")

\* C10: each action call appends its one line to the end of the sequence of
\* its scope's category, returns the owning writer and leaves the other two
\* sequences and the configuration unchanged; creating a scope changes
\* nothing of the writer.
C10_ActionFrame ==
    [][ /\ \A cls \in Classes :
               Len(calls'[cls]) > Len(calls[cls]) =>
                   LET c == calls'[cls][Len(calls'[cls])] IN
                   /\ Lines(writer', cls) =
                          Append(Lines(writer, cls),
                                 Prefix(cls, c.condition) \o Then(c.method, c.arg))
                   /\ \A other \in Classes \ {cls} :
                          Lines(writer', other) = Lines(writer, other)
                   /\ writer'.tblName = writer.tblName
                   /\ writer'.viewName = writer.viewName
                   /\ writer'.condition = writer.condition
                   /\ ret'.kind = "writer"
                   /\ ret'.obj = writer.self
                   /\ \E v \in ScopeVars :
                          /\ Holds(v, cls)
                          /\ scopes[v][1].condition = c.condition
                          /\ scopes[v][1].writer = ret'.obj
        /\ ret'.kind = "scope" =>
               /\ scopes'[ret'.obj] # None
               /\ writer' = writer
               /\ calls' = calls ]_vars

\* an action was appended after a line already held, beside a line of
\* another category, and returned the writer
C10_Witness ==
    /\ writer.notMatchedBySourceActions =
           <<"WHEN NOT MATCHED BY SOURCE THEN DELETE",
             "WHEN NOT MATCHED BY SOURCE AND col > 0 THEN UPDATE SET a = source.a">>
    /\ Holds("s1", "WhenNotMatchedBySource")
    /\ scopes["s1"][1].condition = Some("col > 0")
    /\ ret.kind = "writer"

\* C11: using and on return the writer for every argument, the empty string
\* too; each stores its argument over the value held before and leaves the
\* action sequences, the target table and the other field as they were.
C11_UsingOnStore ==
    [][ /\ \A v \in ViewNames :
               UsingCall(v) =>
                   /\ ret'.kind = "writer" /\ ret'.obj = writer.self
                   /\ writer'.viewName = Some(v)
                   /\ writer'.condition = writer.condition
                   /\ writer'.tblName = writer.tblName
                   /\ \A cls \in Classes : Lines(writer', cls) = Lines(writer, cls)
        /\ \A c \in JoinConditions :
               OnCall(c) =>
                   /\ ret'.kind = "writer" /\ ret'.obj = writer.self
                   /\ writer'.condition = Some(c)
                   /\ writer'.viewName = writer.viewName
                   /\ writer'.tblName = writer.tblName
                   /\ \A cls \in Classes : Lines(writer', cls) = Lines(writer, cls) ]_vars

\* an empty join condition was stored on a writer that holds actions, since
\* the last render succeeded with another one
C11_Witness ==
    /\ ret.kind = "writer"
    /\ writer.condition = Some("")
    /\ writer.viewName = Some("{df}")
    /\ Recorded(writer) = 2
    /\ reuse = None

\* C13: no step changes the target table, and every render of a writer
\* constructed with an empty target table raises the missing-configuration
\* error, whatever using, on and branch calls were made.
C13_EmptyTable ==
    [][ /\ writer'.tblName = writer.tblName
        /\ (Generate /\ writer.tblName = "") => ret' = MissingConfigurationError ]_vars

\* a writer constructed with an empty table name, otherwise configured and
\* holding actions, failed to render
C13_Witness ==
    /\ writer.tblName = ""
    /\ writer.viewName = Some("{df}")
    /\ writer.condition = Some("target.id = source.id")
    /\ HasActions
    /\ ret = MissingConfigurationError

\* C12 as stated: a scope that has appended a line appends no further line
C12_OneLinePerScope ==
    [][ \A v \in ScopeVars : used[v] => ~Actions({v}) ]_vars

\* C12: every action call through a scope appends exactly one line and does
\* not consume the scope: the scope keeps its class, writer and condition,
\* and a further action call through it appends one further line.
C12_ScopeNotConsumed ==
    [][ \A v \in ScopeVars :
            Actions({v}) =>
                /\ Recorded(writer') = Recorded(writer) + 1
                /\ \E cls \in Classes :
                       /\ Holds(v, cls)
                       /\ Len(Lines(writer', cls)) = Len(Lines(writer, cls)) + 1
                       /\ SubSeq(Lines(writer', cls), 1, Len(Lines(writer, cls)))
                              = Lines(writer, cls)
                /\ scopes'[v] = scopes[v]
                /\ used'[v] ]_vars

\* the two matched lines held were appended through the one scope in s1
C12_Witness ==
    /\ used["s1"]
    /\ Holds("s1", "WhenMatched")
    /\ scopes["s1"][1].condition = Some("col > 0")
    /\ writer.matchedActions =
           <<"WHEN MATCHED AND col > 0 THEN UPDATE SET *", "WHEN MATCHED AND col > 0 THEN DELETE">>
    /\ Len(calls.WhenMatched) = 2
    /\ ret.kind = "writer"

-----------------------------------------------------------------------------
(* The clause generators.                                                  *)

\* the call of fn has returned
HasReturned(fn) == util.fn = fn /\ util.result # None

\* the terms, each two separated by sep
RECURSIVE Separated(_, _)
Separated(terms, sep) ==
    IF Len(terms) = 0 THEN ""
    ELSE IF Len(terms) = 1 THEN terms[1]
    ELSE Separated(SubSeq(terms, 1, Len(terms) - 1), sep) \o sep \o terms[Len(terms)]

\* 'target.k1 = source.k1 AND ... AND target.kn = source.kn'
MatchCondition(keys) ==
    Separated([i \in 1..Len(keys) |-> "target." \o keys[i] \o " = source." \o keys[i]],
              " AND ")

\* one term 'target.<col> IN (<values>)' per position both sequences have
PartitionCondition(partCols, partVals) ==
    LET n == IF Len(partCols) < Len(partVals) THEN Len(partCols) ELSE Len(partVals) IN
    Separated([i \in 1..n |-> "target." \o partCols[i] \o " IN (" \o partVals[i] \o ")"],
              " AND ")

\* C14: condition(keys, partCols, partVals) is the match condition, ' AND '
\* and the partition condition when both partition arguments are present and
\* non-empty, and the match condition alone in every other case.
C14_Condition ==
    HasReturned("genCondition") =>
        LET keys == util.args[1]
            partCols == util.args[2]
            partVals == util.args[3]
        IN  IF /\ partCols # None /\ partCols # Some(<<>>)
               /\ partVals # None /\ partVals # Some(<<>>)
            THEN util.result = Some(MatchCondition(keys) \o " AND "
                                    \o PartitionCondition(partCols[1], partVals[1]))
            ELSE util.result = Some(MatchCondition(keys))

\* condition(['a'], ['b'], ["'S030'"]) has returned both conditions
C14_Witness ==
    /\ HasReturned("genCondition")
    /\ util.args = <<(<<"a">>), Some(<<"b">>), Some(<<"'S030'">>)>>
    /\ util.result = Some("target.a = source.a AND target.b IN ('S030')")

\* C15: for a non-empty key sequence matchCondition returns one term
\* 'target.k = source.k' per column, in input order, joined by ' AND ',
\* duplicates kept.
C15_MatchCondition ==
    (HasReturned("_genIdCondition") /\ util.args[1] # <<>>) =>
        util.result = Some(MatchCondition(util.args[1]))

\* matchCondition(['b', 'b']) has returned the term of b twice
C15_Witness ==
    /\ HasReturned("_genIdCondition")
    /\ util.args = <<(<<"b", "b">>)>>
    /\ util.result = Some("target.b = source.b AND target.b = source.b")

\* the names an exclude argument holds
Excluded(exclude) ==
    IF exclude = None THEN {}
    ELSE IF exclude[1].kind = "set" THEN exclude[1].elems
    ELSE {exclude[1].elems[i] : i \in 1..Len(exclude[1].elems)}

\* C16: setClause(cols, exclude) returns the terms '<col> = source.<col>',
\* joined by ', ', of exactly the columns of cols that are not in exclude, in
\* input order; an absent or empty exclude keeps every column, and names of
\* exclude that are not in cols have no effect.
C16_SetClause ==
    HasReturned("genSet") =>
        LET cols == util.args[1]
            exclude == Excluded(util.args[2])
            rest == SelectSeq(cols, LAMBDA c : c \notin exclude)
            Clause(cs) == Separated([i \in 1..Len(cs) |-> cs[i] \o " = source." \o cs[i]], ", ")
        IN  /\ util.result = Some(Clause(rest))
            /\ exclude = {} => util.result = Some(Clause(cols))
            /\ util.result = Some(genSet(cols, Some([kind |-> "set",
                   elems |-> {c \in exclude : \E i \in 1..Len(cols) : cols[i] = c}])))

\* setClause(['a', 'b'], {'a', 'z'}) has returned the term of b alone
C16_Witness ==
    /\ HasReturned("genSet")
    /\ util.args = <<(<<"a", "b">>), Some([kind |-> "set", elems |-> {"a", "z"}])>>
    /\ util.result = Some("b = source.b")

\* C17: valuesClause(cols) returns '(c1, ..., cn) VALUES (source.c1, ...,
\* source.cn)': both lists name the input columns, in input order, and no
\* other column.
C17_ValuesClause ==
    HasReturned("genValues") =>
        LET cols == util.args[1] IN
        util.result = Some("(" \o Separated(cols, ", ") \o ") VALUES ("
            \o Separated([i \in 1..Len(cols) |-> "source." \o cols[i]], ", ") \o ")")

\* valuesClause(['b', 'a']) has returned the two lists in input order
C17_Witness ==
    /\ HasReturned("genValues")
    /\ util.args = <<(<<"b", "a">>)>>
    /\ util.result = Some("(b, a) VALUES (source.b, source.a)")

\* C18: partitionCondition pairs its two sequences by position and returns
\* one term 'target.<col> IN (<values>)' per pair, joined by ' AND ', with the
\* values verbatim; with different lengths it returns as many terms as the
\* shorter sequence has elements.
C18_PartitionCondition ==
    HasReturned("_genPartitionCondition") =>
        util.result = Some(PartitionCondition(util.args[1], util.args[2]))

\* partitionCondition(['a', 'b'], ["'2025', '2024'"]) has returned one term
C18_Witness ==
    /\ HasReturned("_genPartitionCondition")
    /\ util.args = <<(<<"a", "b">>), (<<"'2025', '2024'">>)>>
    /\ util.result = Some("target.a IN ('2025', '2024')")

-----------------------------------------------------------------------------
(* The life of a recorded line.                                            *)

\* the lines of the action calls of class cls made since the last statement
PendingLines(cls) ==
    [i \in 1..Len(calls[cls]) |->
        Prefix(cls, calls[cls][i].condition)
            \o Then(calls[cls][i].method, calls[cls][i].arg)]

\* C19: the writer holds exactly the lines of the action calls made since
\* the last rendered statement; a successful render puts every one of them,
\* once, into its statement and leaves none for a later statement; any other
\* step, a failed render included, removes no line.
C19_RenderedExactlyOnce ==
    [][ /\ \A cls \in Classes : Lines(writer, cls) = PendingLines(cls)
        /\ (Generate /\ ret'.kind = "str") =>
               /\ SubSeq(ret'.sql, 4, Len(ret'.sql))
                      = PendingLines("WhenMatched") \o PendingLines("WhenNotMatched")
                            \o PendingLines("WhenNotMatchedBySource")
               /\ Len(ret'.sql) = 3 + Len(calls.WhenMatched) + Len(calls.WhenNotMatched)
                                    + Len(calls.WhenNotMatchedBySource)
               /\ calls' = NoCalls
               /\ \A cls \in Classes : Lines(writer', cls) = <<>>
        /\ ~(Generate /\ ret'.kind = "str") =>
               \A cls \in Classes :
                   /\ ~Shrinks(Lines(writer, cls), Lines(writer', cls))
                   /\ ~Shrinks(calls[cls], calls'[cls])
        /\ (Generate /\ ret'.kind = "ValueError") =>
               \A cls \in Classes :
                   /\ Lines(writer', cls) = Lines(writer, cls)
                   /\ calls'[cls] = calls[cls] ]_vars

\* a statement holds the two lines recorded before it, and the writer holds
\* neither any more
C19_Witness ==
    /\ ret.kind = "str"
    /\ Len(ret.sql) = 5
    /\ ret.sql[4] = "WHEN MATCHED AND col > 0 THEN DELETE"
    /\ ret.sql[5] = "WHEN NOT MATCHED BY SOURCE THEN DELETE"
    /\ calls = NoCalls
    /\ Recorded(writer) = 0

-----------------------------------------------------------------------------
(* The writer as a template.                                               *)

\* the writers that one action call on a new branch scope of w leaves
AfterOneAction(w) ==
    UNION {
        { WhenMatched_updateAll(w, whenMatched(w, c)),
          WhenMatched_delete(w, whenMatched(w, c)),
          WhenNotMatched_insertAll(w, whenNotMatched(w, c)),
          WhenNotMatchedBySource_updateAll(w, whenNotMatchedBySource(w, c)),
          WhenNotMatchedBySource_delete(w, whenNotMatchedBySource(w, c)) }
        \cup { WhenMatched_updateExpr(w, whenMatched(w, c), set) : set \in SetClauses }
        \cup { WhenNotMatched_insertExpr(w, whenNotMatched(w, c), values) :
                   values \in ValuesClauses }
        \cup { WhenNotMatchedBySource_updateExpr(w, whenNotMatchedBySource(w, c), set) :
                   set \in SetClauses }
        : c \in BranchConditions }

\* C20: in every state a writer with a non-empty target table can reach,
\* after renders that returned or raised, the calls using(non-empty),
\* on(non-empty), one branch action and generate() end in a returned
\* statement, of the relation and the condition just given.
C20_AlwaysRenderable ==
    writer.tblName # "" =>
        \A v \in ViewNames \ {""}, c \in JoinConditions \ {""} :
            \A w \in AfterOneAction(on(using(writer, v), c)) :
                LET rendered == generate(w) IN
                /\ rendered.ret.kind = "str"
                /\ Len(rendered.ret.sql) = 3 + Recorded(writer) + 1
                /\ rendered.ret.sql[2] = "USING " \o v \o " AS source"
                /\ rendered.ret.sql[3] = "ON " \o c

\* a render has just raised on a writer that holds a line and whose source
\* relation and join condition are both set and empty; the four calls end
\* in a statement of two action lines
C20_Witness ==
    /\ ret = MissingConfigurationError
    /\ writer.tblName = "lh.Sales"
    /\ writer.viewName = Some("")
    /\ writer.condition = Some("")
    /\ Recorded(writer) = 1
    /\ LET w == WhenNotMatched_insertAll(
                    on(using(writer, "{df}"), "target.id = source.id"),
                    whenNotMatched(writer, None))
       IN  /\ generate(w).ret.kind = "str"
           /\ Len(generate(w).ret.sql) = 5

-----------------------------------------------------------------------------
(* The shape of the lines of each category.                                *)

\* what can stand between the start of a line and its THEN: nothing, or AND
\* and the predicate of the scope
Guards ==
    {""} \cup {" AND " \o c[1] : c \in {b \in BranchConditions : b # None /\ b # Some("")}}

UpdateOrDelete == {"UPDATE SET *", "DELETE"} \cup {"UPDATE SET " \o set : set \in SetClauses}

Insert == {"INSERT *"} \cup {"INSERT " \o values : values \in ValuesClauses}

\* the lines that start with start and whose action is one of actions
Shape(start, actions) ==
    {start \o guard \o " THEN " \o action : guard \in Guards, action \in actions}

\* C22: every line of matchedActions starts with 'WHEN MATCHED' and updates
\* or deletes; every line of notMatchedActions starts with 'WHEN NOT MATCHED',
\* not followed by 'BY SOURCE', and inserts; every line of
\* notMatchedBySourceActions starts with 'WHEN NOT MATCHED BY SOURCE' and
\* updates or deletes.
C22_LineShapes ==
    /\ \A i \in 1..Len(writer.matchedActions) :
           writer.matchedActions[i] \in Shape("WHEN MATCHED", UpdateOrDelete)
    /\ \A i \in 1..Len(writer.notMatchedActions) :
           /\ writer.notMatchedActions[i] \in Shape("WHEN NOT MATCHED", Insert)
           /\ writer.notMatchedActions[i] \notin Shape("WHEN NOT MATCHED", UpdateOrDelete)
           /\ writer.notMatchedActions[i]
                  \notin Shape("WHEN NOT MATCHED BY SOURCE", UpdateOrDelete \cup Insert)
    /\ \A i \in 1..Len(writer.notMatchedBySourceActions) :
           /\ writer.notMatchedBySourceActions[i]
                  \in Shape("WHEN NOT MATCHED BY SOURCE", UpdateOrDelete)
           /\ writer.notMatchedBySourceActions[i]
                  \notin Shape("WHEN NOT MATCHED BY SOURCE", Insert)

\* an insert is recorded as not matched and an update as not matched by source
C22_Witness ==
    /\ writer.notMatchedActions = <<"WHEN NOT MATCHED AND col > 0 THEN INSERT (a) VALUES (source.a)">>
    /\ writer.notMatchedBySourceActions = <<"WHEN NOT MATCHED BY SOURCE THEN UPDATE SET *">>

-----------------------------------------------------------------------------
(* The join condition of no key columns.                                   *)

\* C23: matchCondition of an empty key sequence returns the empty string, and
\* so does condition(keys) with empty keys and no partition arguments; a
\* writer whose join condition is set to that result is not configured, its
\* render raises the missing-configuration error, and no statement with an
\* empty ON clause is returned.
C23_EmptyKeys ==
    [][ /\ (util'.result # None /\ util'.args[1] = <<>>) => util'.result = Some("")
        /\ (OnResult /\ util.args[1] = <<>>) =>
               /\ writer'.condition = Some("")
               /\ ~Configured'
        /\ (Generate /\ writer.condition = Some("")) =>
               /\ ret' = MissingConfigurationError
               /\ writer'.condition = Some("")
        /\ ret'.kind = "str" => ret'.sql[3] # "ON " ]_vars

\* genCondition([]) returned the empty string, on() stored it, an action was
\* recorded and the render raised
C23_Witness ==
    /\ util = UtilCall("genCondition", <<(<<>>), None, None>>, Some(""))
    /\ writer.condition = Some("")
    /\ Recorded(writer) = 1
    /\ ret = MissingConfigurationError

-----------------------------------------------------------------------------
(* Two writers.                                                            *)

\* the list objects the writer in variable b refers to
ListsOf(h, b) ==
    { h.writers[b][1].matchedActions,
      h.writers[b][1].notMatchedActions,
      h.writers[b][1].notMatchedBySourceActions }

\* a call on the writer in variable b
CallOn(b) ==
    MergeInto(b) \/ BuilderUsing(b) \/ BuilderOn(b) \/ BuilderAction(b) \/ BuilderGenerate(b)

\* C24: a new writer has three empty action sequences of its own and
\* neither a source relation nor a join condition, and no call on a writer
\* (construction, using, on, an action, a render) changes another writer or
\* what the other writer would render.
C24_Independent ==
    [][ \A b \in BuilderIds :
          /\ MergeInto(b) =>
                 /\ Load(builders', b).viewName = None
                 /\ Load(builders', b).condition = None
                 /\ Recorded(Load(builders', b)) = 0
                 /\ Cardinality(ListsOf(builders', b)) = 3
                 /\ \A o \in BuilderIds \ {b} :
                        builders'.writers[o] # None =>
                            ListsOf(builders', b) \cap ListsOf(builders', o) = {}
          /\ CallOn(b) =>
                 \A o \in BuilderIds \ {b} :
                     /\ (builders.writers[o] = None) <=> (builders'.writers[o] = None)
                     /\ builders.writers[o] # None =>
                            /\ Load(builders', o) = Load(builders, o)
                            /\ generate(Load(builders', o)).ret
                                   = generate(Load(builders, o)).ret ]_vars

\* the writer in w1 has rendered its statement and holds no line, and the
\* writer in w2, for the same table, holds its two lines still
C24_Witness ==
    /\ builders.writers["w1"] # None /\ builders.writers["w2"] # None
    /\ ret.kind = "str"
    /\ Recorded(Load(builders, "w1")) = 0
    /\ Load(builders, "w2").matchedActions = <<"WHEN MATCHED THEN DELETE">>
    /\ Load(builders, "w2").notMatchedActions = <<"WHEN NOT MATCHED THEN INSERT *">>
    /\ Load(builders, "w2").viewName = None

-----------------------------------------------------------------------------
(* A writer shared by two threads.                                         *)

\* the places of generate() after it has read the list of cls into sql and
\* before it clears that list
ReadNotCleared(cls) ==
    CASE cls = "WhenMatched" ->
             render.pc \in {"readMatched", "readNotMatched", "composed"}
      [] cls = "WhenNotMatched" ->
             render.pc \in {"readNotMatched", "composed", "clearedMatched"}
      [] cls = "WhenNotMatchedBySource" ->
             render.pc \in {"composed", "clearedMatched", "clearedNotMatched"}

\* the lines of cls appended since the render in progress read the list
Late(cls) == After(Lines(writer, cls), render.seen[cls])

\* the render in progress clears the list of cls
Clears(cls) == ReadNotCleared(cls) /\ ~ReadNotCleared(cls)'

\* the render in progress reads the list of cls
Reads(cls) == ~ReadNotCleared(cls) /\ ReadNotCleared(cls)'

\* C21: a line that one thread appends after the other thread's render has
\* read the line's sequence into its list and before that render clears the
\* sequence is not added to the render's list, is removed by the clear with
\* every other line of the sequence, and is not in the statement the render
\* returns; a later render composes its list from the sequences alone, where
\* the line no longer is.
C21_LostLine ==
    [][ /\ \A cls \in Classes :
             /\ (ReadNotCleared(cls) /\ Len(Lines(writer', cls)) > Len(Lines(writer, cls))) =>
                    /\ render' = render
                    /\ Late(cls)' = Append(Late(cls), Lines(writer', cls)[Len(Lines(writer', cls))])
             /\ Clears(cls) =>
                    /\ Lines(writer', cls) = <<>>
                    /\ render'.sql = render.sql
                    /\ render'.lost = render.lost \o Late(cls)
             /\ Reads(cls) =>
                    /\ After(render'.sql, Len(render'.sql) - Len(Lines(writer, cls)))
                           = Lines(writer, cls)
                    /\ Late(cls)' = <<>>
                    /\ writer' = writer
        /\ render.pc = "composed" =>
               /\ SubSeq(render.sql, 1, 3) = Header
               /\ Len(render.sql) = 3 + render.seen.WhenMatched + render.seen.WhenNotMatched
                                      + render.seen.WhenNotMatchedBySource
        /\ RenderReturn =>
               /\ ret'.kind = "str"
               /\ ret'.sql = render.sql
               /\ ret'.text = JoinedByNewlines(render.sql)
               /\ Len(ret'.sql) = 3 + render.seen.WhenMatched + render.seen.WhenNotMatched
                                    + render.seen.WhenNotMatchedBySource
               /\ \A cls \in Classes : Lines(writer', cls) = Lines(writer, cls) ]_vars

\* a render that composed the statement of one insert has cleared the
\* sequences, and with them a delete appended in between, which neither its
\* list nor the writer holds
C21_Witness ==
    /\ render.pc = "cleared"
    /\ render.sql = <<"MERGE INTO lh.Sales AS target", "USING {df} AS source",
                      "ON target.id = source.id", "WHEN NOT MATCHED THEN INSERT *">>
    /\ render.lost = <<"WHEN MATCHED THEN DELETE">>
    /\ Recorded(writer) = 0

====
